---- MODULE Spec2Model ----
(***************************************************************************)
(* Model of src/Master8.py: the Master8 command encoder.                   *)
(*                                                                         *)
(* The state is the encoder's connection (self.c) together with a record   *)
(* of the most recent call: its name, its arguments, how it ended, the     *)
(* strings it handed to self.c.write (in order) and the value it returned. *)
(* Every public method is one action.  A method body is translated into    *)
(* the sequence of its asserts and writes, in source order, and Run        *)
(* executes that sequence the way Python does: it stops at the first       *)
(* failing assert or the first write the connection refuses.               *)
(*                                                                         *)
(* Text is modelled character by character (sequences of one-character     *)
(* strings) wherever the code formats or strips it; Str turns such a       *)
(* sequence into the string that goes on the wire.                         *)
(*                                                                         *)
(* A float argument is a signed decimal [neg, whole, frac] with frac       *)
(* counted in units of 10^-FracDigits.  The arguments enumerated are such  *)
(* that a rounding tie only happens at a value binary64 holds exactly      *)
(* (0.5, 0.25, ...), where the direction is the rounding rule's and not an *)
(* accident of the representation error.                                   *)
(***************************************************************************)
EXTENDS Integers, Sequences, FiniteSets, TLC

VARIABLES c, op, args, outcome, out, toks, ret

vars == <<c, op, args, outcome, out, toks, ret>>

(* ---------------------------------------------------------------- bounds *)

\* integer arguments (channels, paradigms, m, mode indices) range over -1..MaxArg
MaxArg == 10

\* number of fractional decimal digits a float argument carries
FracDigits == 7

(* ------------------------------------------------------- module constants *)

DURATION == "D"
INTERVAL == "I"
DELAY == "L"
M == "M"
V == "V"
FREE_RUN == "F"
TRAIN == "N"
TRIG == "G"
DC == "C"
GATE == "T"
OFF == "O"
ALL == "A"
CONNECT == "X"
DISCONNECT == "Z"
ENTER == "E"

paradigms == 1..8
channels == 1..8
cmList == 0..5
\* the mode list with TRAIN and TRIG in each other's place
modes_swapped == <<OFF, FREE_RUN, TRIG, TRAIN, DC, GATE>>

modes == <<OFF, FREE_RUN, TRAIN, TRIG, DC, GATE>>

\* Python's `mode in self.modes`
InModes(s) == \E i \in 1..Len(modes) : modes[i] = s

(* ------------------------------------------------------------------ text *)

Digits == <<"0", "1", "2", "3", "4", "5", "6", "7", "8", "9">>

RECURSIVE Pow(_, _)
Pow(b, k) == IF k = 0 THEN 1 ELSE b * Pow(b, k - 1)

Pow10(k) == Pow(10, k)

\* decimal digits of a natural number, no leading zeros
RECURSIVE NatChars(_)
NatChars(n) ==
    IF n < 10 THEN <<Digits[n + 1]>>
    ELSE NatChars(n \div 10) \o <<Digits[(n % 10) + 1]>>

\* the last w decimal digits of n, zero-padded on the left
RECURSIVE Pad(_, _)
Pad(n, w) ==
    IF w = 0 THEN <<>>
    ELSE Pad(n \div 10, w - 1) \o <<Digits[(n % 10) + 1]>>

\* characters -> string
RECURSIVE Str(_)
Str(cs) == IF cs = <<>> THEN "" ELSE Head(cs) \o Str(Tail(cs))

\* str(n) for a Python int
IntStr(n) == IF n < 0 THEN "-" \o Str(NatChars(-n)) ELSE Str(NatChars(n))

\* s.rstrip(ch): drop every trailing occurrence of the character ch
RECURSIVE rstrip(_, _)
rstrip(cs, ch) ==
    IF cs # <<>> /\ cs[Len(cs)] = ch
    THEN rstrip(SubSeq(cs, 1, Len(cs) - 1), ch)
    ELSE cs

(* ---------------------------------------------------------------- floats *)

Unit == Pow10(FracDigits)

Dec(neg, whole, frac) == [neg |-> neg, whole |-> whole, frac |-> frac]

\* n millionths, in units of 10^-FracDigits
Micro(n) == n * Pow10(FracDigits - 6)

IsZero(d) == d.whole = 0 /\ d.frac = 0

Sign(d) == IF IsZero(d) THEN 0 ELSE IF d.neg THEN -1 ELSE 1

MagLT(a, b) == a.whole < b.whole \/ (a.whole = b.whole /\ a.frac < b.frac)

\* a < b on floats
LT(a, b) ==
    \/ Sign(a) < Sign(b)
    \/ /\ Sign(a) = Sign(b)
       /\ IF Sign(a) = 1 THEN MagLT(a, b)
          ELSE IF Sign(a) = -1 THEN MagLT(b, a)
          ELSE FALSE

\* a <= b on floats
LE(a, b) == ~LT(b, a)

\* abs(f)
Abs(d) == [d EXCEPT !.neg = FALSE]

\* d rounded to p fractional digits; a tie goes away from zero when
\* away = TRUE (Python 2's round) and to the even digit otherwise (the
\* correctly rounded conversion str.format performs on an exact value).
RoundDec(d, p, away) ==
    LET unit  == Pow10(FracDigits - p)
        q     == d.frac \div unit
        r     == d.frac % unit
        last  == IF p = 0 THEN d.whole ELSE q
        up    == \/ 2 * r > unit
                 \/ 2 * r = unit /\ (away \/ last % 2 = 1)
        q2    == IF up THEN q + 1 ELSE q
        carry == q2 = Pow10(p)
    IN  [neg   |-> d.neg,
         whole |-> IF carry THEN d.whole + 1 ELSE d.whole,
         frac  |-> IF carry THEN 0 ELSE q2 * unit]

\* "{0:0.<p>f}".format(f): sign, integer digits and, when p > 0, a point and
\* exactly p fractional digits
Fixed(d, p) ==
    LET x == RoundDec(d, p, FALSE)
    IN  (IF d.neg THEN <<"-">> ELSE <<>>)
        \o NatChars(x.whole)
        \o (IF p > 0
            THEN <<".">> \o Pad(x.frac \div Pow10(FracDigits - p), p)
            ELSE <<>>)

\* str(x) of a non-negative Python 2 float with fewer than 12 significant
\* digits: the shortest decimal, always with a point and at least one
\* fractional digit ("5.0", "12.7", "0.0")
FloatStr(d) ==
    LET fr == rstrip(Pad(d.frac, FracDigits), "0")
    IN  NatChars(d.whole) \o <<".">> \o (IF fr = <<>> THEN <<"0">> ELSE fr)

(* ----------------------------------------------------- running a method *)

\* x == None is the empty tuple, a value v is <<v>>
None == <<>>

Some(v) == <<v>>

\* assert(cond)
ASSERT(cond) == [t |-> "assert", ok |-> cond, a |-> <<>>]

\* self.write(*a), a the arguments already passed through str()
WRITE(a) == [t |-> "write", ok |-> TRUE, a |-> a]

\* ' '.join(map(str, args)): the string Master8.write hands to self.c.write
RECURSIVE write(_)
write(a) ==
    IF a = <<>> THEN ""
    ELSE IF Len(a) = 1 THEN a[1]
    ELSE a[1] \o " " \o write(Tail(a))

Start == [out |-> <<>>, toks |-> <<>>, outcome |-> "ok"]

\* Execute a method body on connection state conn.  A failing assert raises
\* AssertionError; self.c.write raises AttributeError when __init__ left
\* self.c unset and pyserial's port-not-open SerialException when the port
\* is closed; either ends the call with the writes made so far.
RECURSIVE Run(_, _, _)
Run(steps, conn, acc) ==
    IF steps = <<>> THEN acc
    ELSE LET s == Head(steps)
         IN  IF s.t = "assert"
             THEN IF s.ok
                  THEN Run(Tail(steps), conn, acc)
                  ELSE [acc EXCEPT !.outcome = "AssertionError"]
             ELSE IF conn = "open"
                  THEN Run(Tail(steps), conn,
                           [acc EXCEPT !.out = Append(@, write(s.a)),
                                       !.toks = @ \o s.a])
                  ELSE [acc EXCEPT !.outcome =
                            IF conn = "unset" THEN "AttributeError"
                            ELSE "SerialException"]

(* ----------------------------------------------------------- the methods *)

\* defaults of writeInterval's and writeVoltage's keyword parameters
writeInterval_minf == 0
writeInterval_maxf == 3999
writeInterval_res == 6
writeVoltage_res == 1

\* 12.7, the magnitude of writeVoltage's default bounds
Volt127 == Dec(FALSE, 12, Micro(700000))

\* the text writeInterval sends for f at resolution res
IntervalText(f, res) == rstrip(rstrip(Fixed(f, res), "0"), ".")

writeInterval(f, minf, maxf, res) ==
    (IF minf # None THEN <<ASSERT(LE(minf[1], f))>> ELSE <<>>)
    \o (IF maxf # None THEN <<ASSERT(LE(f, maxf[1]))>> ELSE <<>>)
    \o <<WRITE(<<Str(IntervalText(f, res)), ENTER, IntStr(0), ENTER>>)>>

\* str(round(abs(f), res))
VoltageText(f, res) == FloatStr(RoundDec(Abs(f), res, TRUE))

\* writeVoltage sending the closing ENTER only after a sign
writeVoltage_signed_enter(f, minf, maxf, res) ==
    (IF minf # None THEN <<ASSERT(LE(minf[1], f))>> ELSE <<>>)
    \o (IF maxf # None THEN <<ASSERT(LE(f, maxf[1]))>> ELSE <<>>)
    \o <<WRITE(<<Str(VoltageText(f, res)), ENTER>>)>>
    \o (IF Sign(f) < 0 THEN <<WRITE(<<"-">>), WRITE(<<ENTER>>)>> ELSE <<>>)

writeVoltage(f, minf, maxf, res) ==
    (IF minf # None THEN <<ASSERT(LE(minf[1], f))>> ELSE <<>>)
    \o (IF maxf # None THEN <<ASSERT(LE(f, maxf[1]))>> ELSE <<>>)
    \o <<WRITE(<<Str(VoltageText(f, res)), ENTER>>)>>
    \o (IF Sign(f) < 0 THEN <<WRITE(<<"-">>)>> ELSE <<>>)
    \o <<WRITE(<<ENTER>>)>>

changeParadigm(paradigm) ==
    <<ASSERT(paradigm \in paradigms),
      WRITE(<<ALL, IntStr(paradigm), ENTER>>)>>

\* mode is <<"int", i>> or <<"str", s>>
changeChannelMode(channel, mode) ==
    <<ASSERT(channel \in channels)>>
    \o (IF mode[1] = "int" /\ mode[2] \in cmList
        THEN <<WRITE(<<modes[mode[2] + 1], IntStr(channel), ENTER>>)>>
        ELSE IF mode[1] = "str" /\ InModes(mode[2])
        THEN <<WRITE(<<mode[2], IntStr(channel), ENTER>>)>>
        ELSE <<ASSERT(FALSE)>>)

setChannelDuration(channel, duration) ==
    <<WRITE(<<DURATION, IntStr(channel)>>)>>
    \o writeInterval(duration, Some(Dec(FALSE, 0, Micro(40))),
                     Some(Dec(FALSE, writeInterval_maxf, 0)), writeInterval_res)

setChannelInterval(channel, interval) ==
    <<WRITE(<<INTERVAL, IntStr(channel)>>)>>
    \o writeInterval(interval, Some(Dec(FALSE, 0, Micro(60))),
                     Some(Dec(FALSE, writeInterval_maxf, 0)), writeInterval_res)

\* setChannelDelay with setChannelInterval's minimum
setChannelDelay_min60(channel, delay) ==
    <<WRITE(<<DELAY, IntStr(channel)>>)>>
    \o writeInterval(delay, Some(Dec(FALSE, 0, Micro(60))),
                     Some(Dec(FALSE, writeInterval_maxf, 0)), writeInterval_res)

setChannelDelay(channel, delay) ==
    <<WRITE(<<DELAY, IntStr(channel)>>)>>
    \o writeInterval(delay, Some(Dec(FALSE, 0, Micro(100))),
                     Some(Dec(FALSE, writeInterval_maxf, 0)), writeInterval_res)

setChannelM(channel, m) ==
    <<WRITE(<<M, IntStr(channel), IntStr(m), ENTER, IntStr(0), ENTER>>)>>

setChannelVoltage(channel, voltage) ==
    <<ASSERT(channel \in channels),
      WRITE(<<V, IntStr(channel)>>)>>
    \o writeVoltage(voltage, Some([Volt127 EXCEPT !.neg = TRUE]),
                    Some(Volt127), writeVoltage_res)

trigger(channel) ==
    <<ASSERT(channel \in channels),
      WRITE(<<IntStr(channel)>>)>>

clearParadigm ==
    <<WRITE(<<OFF, ALL, ALL, ENTER>>)>>

copyParadigm(srcParadigm, destParadigm) ==
    <<ASSERT(srcParadigm \in paradigms),
      ASSERT(destParadigm \in paradigms),
      WRITE(<<ALL, IntStr(srcParadigm), IntStr(destParadigm), ENTER>>)>>

\* connectChannel checking its first argument only
connectChannel_one_assert(srcChannel, triggeredChannel) ==
    <<ASSERT(srcChannel \in channels),
      WRITE(<<CONNECT, IntStr(srcChannel), IntStr(triggeredChannel), ENTER>>)>>

connectChannel(srcChannel, triggeredChannel) ==
    <<ASSERT(srcChannel \in channels),
      ASSERT(triggeredChannel \in channels),
      WRITE(<<CONNECT, IntStr(srcChannel), IntStr(triggeredChannel), ENTER>>)>>

disconnectChannel(srcChannel, triggeredChannel) ==
    <<ASSERT(srcChannel \in channels),
      ASSERT(triggeredChannel \in channels),
      WRITE(<<DISCONNECT, IntStr(srcChannel), IntStr(triggeredChannel), ENTER>>)>>

(* ------------------------------------------------------------ arguments *)

\* what the caller may pass as `connection`: nothing, an address string, a
\* serial port object (open or not), or something else
ConnArgs == {"None", "url", "open port", "closed port", "other"}

IntArgs == -1..MaxArg

ModeArgs ==
    {<<"int", i>> : i \in IntArgs}
    \cup {<<"str", s>> : s \in {OFF, FREE_RUN, TRAIN, TRIG, DC, GATE,
                               DURATION, ENTER, "n", ""}}

\* a rounding tie of d at p digits falls on a value binary64 holds exactly
ExactTies(d) ==
    \A p \in 0..(FracDigits - 1) :
        (2 * (d.frac % Pow10(FracDigits - p)) = Pow10(FracDigits - p))
            => d.frac % Pow(5, FracDigits) = 0

IntervalArgs ==
    {d \in
        {Dec(FALSE, 0, 0), Dec(FALSE, 0, Micro(39)), Dec(FALSE, 0, Micro(40)),
         Dec(FALSE, 0, Micro(59)), Dec(FALSE, 0, Micro(60)),
         Dec(FALSE, 0, Micro(99)), Dec(FALSE, 0, Micro(100)),
         Dec(FALSE, 0, Micro(40) + Pow10(FracDigits - 7) * 4),
         Dec(FALSE, 0, Micro(250000)), Dec(FALSE, 0, Micro(500000)),
         Dec(FALSE, 0, Unit - Pow10(FracDigits - 7) * 4),
         Dec(FALSE, 1, 0), Dec(FALSE, 1, Micro(230000)),
         Dec(FALSE, 1, Micro(500000)), Dec(FALSE, 10, 0),
         Dec(FALSE, 100, Micro(10000)), Dec(FALSE, 3999, 0),
         Dec(FALSE, 3999, Micro(1)), Dec(FALSE, 4000, 0),
         Dec(TRUE, 0, Micro(500000)), Dec(TRUE, 1, 0),
         Dec(TRUE, 0, Pow10(FracDigits - 7) * 4)} : ExactTies(d)}

VoltageArgs ==
    {d \in
        {Dec(FALSE, 0, 0), Dec(FALSE, 0, Micro(40000)),
         Dec(FALSE, 0, Micro(250000)), Dec(FALSE, 0, Micro(500000)),
         Dec(FALSE, 5, 0), Dec(FALSE, 12, Micro(340000)),
         Dec(FALSE, 12, Micro(700000)), Dec(FALSE, 12, Micro(800000)),
         Dec(TRUE, 0, Micro(40000)), Dec(TRUE, 0, Micro(250000)),
         Dec(TRUE, 5, 0), Dec(TRUE, 9, Micro(960000)),
         Dec(TRUE, 12, Micro(340000)), Dec(TRUE, 12, Micro(700000)),
         Dec(TRUE, 12, Micro(800000))} : ExactTies(d)}

IntervalMinArgs ==
    {None, Some(Dec(FALSE, writeInterval_minf, 0)), Some(Dec(FALSE, 0, Micro(40)))}

IntervalMaxArgs == {None, Some(Dec(FALSE, writeInterval_maxf, 0))}

VoltageMinArgs == {None, Some([Volt127 EXCEPT !.neg = TRUE])}

VoltageMaxArgs == {None, Some(Volt127)}

\* the resolutions the format and the magnitudes above are modelled for
IntervalResArgs == 0..6

VoltageResArgs == 0..2

\* argument tuples of the raw write
WriteArgs == {<<>>, <<ENTER>>, <<ALL, "1", ENTER>>, <<OFF, ALL, ALL, ENTER>>}

(* --------------------------------------------------------- construction *)

\* Master8.__init__: the state of self.c it leaves behind.  Every branch
\* returns normally; the last one prints and leaves self.c unset.
Master8(connection) ==
    IF connection = "None" THEN "closed"
    ELSE IF connection = "url" THEN "open"
    ELSE IF connection = "open port" THEN "open"
    ELSE IF connection = "closed port" THEN "closed"
    ELSE "unset"

Init ==
    \E connection \in ConnArgs :
        /\ c = Master8(connection)
        /\ op = "__init__"
        /\ args = <<connection>>
        /\ outcome = "ok"
        /\ out = <<>>
        /\ toks = <<>>
        /\ ret = "None"

(* --------------------------------------------------------------- actions *)

\* One call at a time: the encoder is synchronous and single-threaded.  The
\* record of a call (op, args, outcome, out, toks, ret) is what its caller
\* observes; Return hands control back and clears it before the next call.
Idle == op = "idle"

Return ==
    /\ ~Idle
    /\ op' = "idle"
    /\ args' = <<>>
    /\ outcome' = "ok"
    /\ out' = <<>>
    /\ toks' = <<>>
    /\ ret' = "None"
    /\ UNCHANGED c

\* the record left by a call of method `name` whose body ran as r
Call(name, a, r) ==
    /\ Idle
    /\ op' = name
    /\ args' = a
    /\ outcome' = r.outcome
    /\ out' = r.out
    /\ toks' = r.toks
    /\ ret' = "None"

Call_write ==
    \E a \in WriteArgs :
        /\ Call("write", a,
                Run(<<WRITE(a)>>, c, Start))
        /\ UNCHANGED c

Call_writeInterval ==
    \E f \in IntervalArgs, minf \in IntervalMinArgs, maxf \in IntervalMaxArgs,
       res \in IntervalResArgs :
        /\ Call("writeInterval", <<f, minf, maxf, res>>,
                Run(writeInterval(f, minf, maxf, res), c, Start))
        /\ UNCHANGED c

Call_writeVoltage ==
    \E f \in VoltageArgs, minf \in VoltageMinArgs, maxf \in VoltageMaxArgs,
       res \in VoltageResArgs :
        /\ Call("writeVoltage", <<f, minf, maxf, res>>,
                Run(writeVoltage(f, minf, maxf, res), c, Start))
        /\ UNCHANGED c

\* the `connected` property read: self.c.isOpen()
Get_connected ==
    /\ Idle
    /\ op' = "connected.get"
    /\ args' = <<>>
    /\ outcome' = IF c = "unset" THEN "AttributeError" ELSE "ok"
    /\ ret' = IF c = "unset" THEN "None"
              ELSE IF c = "open" THEN "True" ELSE "False"
    /\ out' = <<>>
    /\ toks' = <<>>
    /\ UNCHANGED c

\* the assignment closing self.c whatever the value
Set_connected_always_closes ==
    \E value \in BOOLEAN :
        /\ Idle
        /\ op' = "connected.set"
        /\ args' = <<value>>
        /\ outcome' = IF c = "unset" THEN "AttributeError" ELSE "ok"
        /\ c' = IF c # "unset" THEN "closed" ELSE c
        /\ ret' = "None"
        /\ out' = <<>>
        /\ toks' = <<>>

\* the `connected` property assignment: a false value closes self.c
Set_connected ==
    \E value \in BOOLEAN :
        /\ Idle
        /\ op' = "connected.set"
        /\ args' = <<value>>
        /\ outcome' = IF ~value /\ c = "unset" THEN "AttributeError" ELSE "ok"
        /\ c' = IF ~value /\ c # "unset" THEN "closed" ELSE c
        /\ ret' = "None"
        /\ out' = <<>>
        /\ toks' = <<>>

Call_changeParadigm ==
    \E paradigm \in IntArgs :
        /\ Call("changeParadigm", <<paradigm>>,
                Run(changeParadigm(paradigm), c, Start))
        /\ UNCHANGED c

Call_changeChannelMode ==
    \E channel \in IntArgs, mode \in ModeArgs :
        /\ Call("changeChannelMode", <<channel, mode>>,
                Run(changeChannelMode(channel, mode), c, Start))
        /\ UNCHANGED c

Call_setChannelDuration ==
    \E channel \in IntArgs, duration \in IntervalArgs :
        /\ Call("setChannelDuration", <<channel, duration>>,
                Run(setChannelDuration(channel, duration), c, Start))
        /\ UNCHANGED c

Call_setChannelInterval ==
    \E channel \in IntArgs, interval \in IntervalArgs :
        /\ Call("setChannelInterval", <<channel, interval>>,
                Run(setChannelInterval(channel, interval), c, Start))
        /\ UNCHANGED c

Call_setChannelDelay ==
    \E channel \in IntArgs, delay \in IntervalArgs :
        /\ Call("setChannelDelay", <<channel, delay>>,
                Run(setChannelDelay(channel, delay), c, Start))
        /\ UNCHANGED c

Call_setChannelM ==
    \E channel \in IntArgs, m \in IntArgs :
        /\ Call("setChannelM", <<channel, m>>,
                Run(setChannelM(channel, m), c, Start))
        /\ UNCHANGED c

Call_setChannelVoltage ==
    \E channel \in IntArgs, voltage \in VoltageArgs :
        /\ Call("setChannelVoltage", <<channel, voltage>>,
                Run(setChannelVoltage(channel, voltage), c, Start))
        /\ UNCHANGED c

Call_trigger ==
    \E channel \in IntArgs :
        /\ Call("trigger", <<channel>>,
                Run(trigger(channel), c, Start))
        /\ UNCHANGED c

Call_clearParadigm ==
        /\ Call("clearParadigm", <<>>,
                Run(clearParadigm, c, Start))
        /\ UNCHANGED c

Call_copyParadigm ==
    \E srcParadigm \in IntArgs, destParadigm \in IntArgs :
        /\ Call("copyParadigm", <<srcParadigm, destParadigm>>,
                Run(copyParadigm(srcParadigm, destParadigm), c, Start))
        /\ UNCHANGED c

Call_connectChannel ==
    \E srcChannel \in IntArgs, triggeredChannel \in IntArgs :
        /\ Call("connectChannel", <<srcChannel, triggeredChannel>>,
                Run(connectChannel(srcChannel, triggeredChannel), c, Start))
        /\ UNCHANGED c

Call_disconnectChannel ==
    \E srcChannel \in IntArgs, triggeredChannel \in IntArgs :
        /\ Call("disconnectChannel", <<srcChannel, triggeredChannel>>,
                Run(disconnectChannel(srcChannel, triggeredChannel), c, Start))
        /\ UNCHANGED c

Next ==
    \/ Call_write
    \/ Call_writeInterval
    \/ Call_writeVoltage
    \/ Get_connected
    \/ Set_connected
    \/ Call_changeParadigm
    \/ Call_changeChannelMode
    \/ Call_setChannelDuration
    \/ Call_setChannelInterval
    \/ Call_setChannelDelay
    \/ Call_setChannelM
    \/ Call_setChannelVoltage
    \/ Call_trigger
    \/ Call_clearParadigm
    \/ Call_copyParadigm
    \/ Call_connectChannel
    \/ Call_disconnectChannel
    \/ Return

Spec == Init /\ [][Next]_vars

(* ------------------------------------------------- reading the record *)

\* the bytes that reached the connection during the call: its writes, in
\* order, with nothing between them
RECURSIVE Wire(_)
Wire(ws) == IF ws = <<>> THEN "" ELSE Head(ws) \o Wire(Tail(ws))

\* the channel and paradigm arguments of the recorded call
ChannelArgsOf ==
    IF op \in {"changeParadigm", "trigger", "changeChannelMode",
               "setChannelDuration", "setChannelInterval", "setChannelDelay",
               "setChannelM", "setChannelVoltage"}
    THEN {args[1]}
    ELSE IF op \in {"copyParadigm", "connectChannel", "disconnectChannel"}
    THEN {args[1], args[2]}
    ELSE {}

IsDigit(ch) == \E i \in 1..10 : Digits[i] = ch

DigitVal(ch) == (CHOOSE i \in 1..10 : Digits[i] = ch) - 1

RECURSIVE NatOf(_)
NatOf(cs) ==
    IF cs = <<>> THEN 0
    ELSE 10 * NatOf(SubSeq(cs, 1, Len(cs) - 1)) + DigitVal(cs[Len(cs)])

\* the number a decimal numeral denotes: ok is FALSE when cs is no numeral
\* (no integer digit, or a character that is neither a digit, a leading
\* sign nor a single point followed by digits)
Denotes(cs) ==
    LET neg  == cs # <<>> /\ cs[1] = "-"
        body == IF neg THEN Tail(cs) ELSE cs
        dots == {i \in 1..Len(body) : body[i] = "."}
        dot  == IF dots = {} THEN Len(body) + 1 ELSE CHOOSE i \in dots : TRUE
        ip   == SubSeq(body, 1, dot - 1)
        fp   == SubSeq(body, dot + 1, Len(body))
        ok   == /\ Cardinality(dots) <= 1
                /\ ip # <<>>
                /\ dots # {} => fp # <<>>
                /\ Len(fp) <= FracDigits
                /\ \A i \in 1..Len(ip) : IsDigit(ip[i])
                /\ \A i \in 1..Len(fp) : IsDigit(fp[i])
    IN  IF ok
        THEN [ok |-> TRUE, neg |-> neg, whole |-> NatOf(ip),
              frac |-> NatOf(fp) * Pow10(FracDigits - Len(fp))]
        ELSE [ok |-> FALSE, neg |-> FALSE, whole |-> 0, frac |-> 0]

\* the numeral cs denotes the number d
SameNumber(cs, d) ==
    LET n == Denotes(cs)
    IN  /\ n.ok
        /\ n.whole = d.whole
        /\ n.frac = d.frac
        /\ IsZero(d) \/ n.neg = d.neg

InRange(n) == n \in 1..8

(* ---------------------------------------------------------------- claims *)

\* C1: a call that fails validation has written nothing: no prefix of the
\* command (such as "D <channel>" or "V <channel>") is on the connection.
C1_NoWriteBeforeValidation ==
    outcome = "AssertionError" => out = <<>>

\* C2: whenever a call that takes a channel or paradigm argument has written
\* anything, every such argument lies in 1..8.
C2_ChannelsInRange ==
    out # <<>> => \A n \in ChannelArgsOf : InRange(n)

\* C3: the bytes a successful call puts on the connection are its tokens
\* with exactly one space between every two adjacent tokens.
C3_SingleSpaceBetweenTokens ==
    outcome = "ok" => Wire(out) = write(toks)

\* C4 as claimed: a negative voltage is sent as magnitude, E, -, E and a
\* non-negative one as magnitude, E with no sign token and one ENTER in all.
C4_OneEnterWhenNonNegative ==
    op = "writeVoltage" /\ outcome = "ok" =>
        LET mag == Str(VoltageText(args[1], args[4]))
        IN  toks = IF Sign(args[1]) < 0
                   THEN <<mag, ENTER, "-", ENTER>>
                   ELSE <<mag, ENTER>>

\* C4 (amended): writeVoltage within bounds writes the rounded magnitude,
\* rendered as a float ("5.0"), and ENTER in one message; then "-" on its
\* own if the value is negative; then, negative or not, ENTER on its own.
\* writeVoltage(-5.0) writes "5.0 E", "-", "E"; writeVoltage(5.0) writes
\* "5.0 E", "E".
C4_VoltageWrites ==
    op = "writeVoltage" /\ outcome = "ok" =>
        LET f   == args[1]
            mag == Str(VoltageText(f, args[4]))
        IN  /\ out = IF Sign(f) < 0
                     THEN <<mag \o " E", "-", "E">>
                     ELSE <<mag \o " E", "E">>
            /\ (Abs(f) = Dec(FALSE, 5, 0) /\ args[4] = writeVoltage_res
                    => mag = "5.0")
            /\ (Abs(f) = Volt127 /\ args[4] = writeVoltage_res
                    => mag = "12.7")

C4_Witness ==
    /\ op = "writeVoltage"
    /\ args[1] = Dec(FALSE, 5, 0)
    /\ args[4] = writeVoltage_res
    /\ out = <<"5.0 E", "E">>

\* the minimum the claim gives each of the three interval setters
MinOf(name) ==
    IF name = "setChannelDuration" THEN Dec(FALSE, 0, Micro(40))
    ELSE IF name = "setChannelInterval" THEN Dec(FALSE, 0, Micro(60))
    ELSE Dec(FALSE, 0, Micro(100))

IntervalSetters == {"setChannelDuration", "setChannelInterval", "setChannelDelay"}

KeyOf(name) ==
    IF name = "setChannelDuration" THEN "D"
    ELSE IF name = "setChannelInterval" THEN "I"
    ELSE "L"

\* C5 as claimed: on an open connection and a channel in 1..8 the three
\* interval setters succeed for every value at or above their minimum and
\* fail only below it.
C5_NoUpperBound ==
    op \in IntervalSetters /\ c = "open" /\ InRange(args[1]) =>
        (outcome = "ok" <=> LE(MinOf(op), args[2]))

\* C5 (amended): on an open connection and a channel in 1..8 the three
\* interval setters succeed, writing "<key> <channel>" and then
\* "<value> E 0 E", exactly when minimum <= value <= 3999; below the minimum
\* and above 3999 they fail with the assertion error.
C5_BoundedIntervals ==
    op \in IntervalSetters /\ c = "open" /\ InRange(args[1]) =>
        LET v  == args[2]
            ok == LE(MinOf(op), v) /\ LE(v, Dec(FALSE, 3999, 0))
        IN  /\ outcome = IF ok THEN "ok" ELSE "AssertionError"
            /\ ok => /\ Len(out) = 2
                     /\ out[1] = KeyOf(op) \o " " \o IntStr(args[1])
                     /\ out[2] = Str(IntervalText(v, 6)) \o " E 0 E"
                     /\ SameNumber(IntervalText(v, 6), RoundDec(v, 6, FALSE))

C5_Witness ==
    /\ op = "setChannelDelay"
    /\ c = "open"
    /\ args = <<8, Dec(FALSE, 3999, 0)>>
    /\ outcome = "ok"
    /\ out = <<"L 8", "3999 E 0 E">>

\* C6: changeChannelMode on a channel in 1..8 writes the single message
\* "<token> <channel> E" for an index 0..5 and for the token at that index
\* of [O, F, N, G, C, T] alike; any other mode fails and writes nothing.
C6_ModeResolution ==
    op = "changeChannelMode" /\ InRange(args[1]) =>
        LET ch    == args[1]
            mode  == args[2]
            table == <<"O", "F", "N", "G", "C", "T">>
            isIdx == mode[1] = "int" /\ mode[2] \in 0..5
            isTok == mode[1] = "str" /\ \E i \in 1..6 : table[i] = mode[2]
            token == IF isIdx THEN table[mode[2] + 1] ELSE mode[2]
        IN  IF isIdx \/ isTok
            THEN c = "open" =>
                    /\ outcome = "ok"
                    /\ out = <<token \o " " \o IntStr(ch) \o " E">>
            ELSE outcome = "AssertionError" /\ out = <<>>

C6_Witness ==
    /\ op = "changeChannelMode"
    /\ args = <<3, <<"int", 2>>>>
    /\ out = <<"N 3 E">>

C8_RangeCheckedCommands ==
    op \in {"changeParadigm", "copyParadigm", "connectChannel",
            "disconnectChannel"} =>
        LET key  == IF op = "connectChannel" THEN "X"
                    ELSE IF op = "disconnectChannel" THEN "Z" ELSE "A"
            nums == IF op = "changeParadigm" THEN IntStr(args[1])
                    ELSE IntStr(args[1]) \o " " \o IntStr(args[2])
        IN  IF \A i \in 1..Len(args) : InRange(args[i])
            THEN c = "open" =>
                    /\ outcome = "ok"
                    /\ out = <<key \o " " \o nums \o " E">>
            ELSE outcome = "AssertionError" /\ out = <<>>

C8_Witness ==
    /\ op = "connectChannel"
    /\ c = "open"
    /\ args = <<1, 9>>
    /\ outcome = "AssertionError"
    /\ out = <<>>

\* C9: constructing the encoder with an unrecognised connection argument
\* fails, and no encoder is ever without a connection.
C9_ConstructorRejects ==
    /\ (op = "__init__" /\ args[1] = "other" => outcome # "ok")
    /\ c # "unset"

\* C10: writeInterval within bounds writes exactly "<formatted> E 0 E",
\* where <formatted> is non-empty and denotes the value rounded to the
\* precision, for every precision in 0..6.
C10_IntervalText ==
    op = "writeInterval" /\ outcome = "ok" =>
        LET t == IntervalText(args[1], args[4])
        IN  /\ out = <<Str(t) \o " E 0 E">>
            /\ t # <<>>
            /\ SameNumber(t, RoundDec(args[1], args[4], FALSE))

====
